---- MODULE Spec2Model ----
(***************************************************************************)
(* Titier - Tauri backend management (src/frontend/src-tauri/src/lib.rs).  *)
(*                                                                         *)
(* The supervisor keeps zero or one handle of the "titier-backend" sidecar *)
(* in BackendState.child, a Mutex<Option<CommandChild>>.  Three commands   *)
(* (start_backend, stop_backend, get_backend_status) run concurrently on   *)
(* the async runtime; each takes the mutex for its whole body.  In release *)
(* builds the setup hook also spawns a detached task that sleeps and then  *)
(* spawns the sidecar.                                                     *)
(*                                                                         *)
(* A command is split into steps at its blocking points only: the lock     *)
(* acquisition and the spawn / kill calls made while the lock is held.     *)
(* The returns of the commands are recorded, in the order they happen, in  *)
(* the history variable hist.                                              *)
(***************************************************************************)
EXTENDS Integers, Sequences, FiniteSets, TLC

\* ---------------------------------------------------------------- bounds
NumCallers == 2
\* calls explored when the callers run concurrently
MaxCalls == 3
\* calls explored when one call is made at a time
MaxSeqCalls == 5
\* calls explored when the infinite runs are examined
MaxLiveCalls == 2

Callers == 1..NumCallers
\* one process identifier per spawn: each start_backend call spawns at most
\* once, and the auto-start task spawns at most once
Pids == 1..(MaxCalls + MaxSeqCalls + 1)

\* --------------------------------------------------------------- values
\* Option::None of the slot, and the JSON null of the status reply
None == 0
Null == 0
\* the mutex is held by nobody
Free == 0

MsgAlreadyRunning == "Backend ja esta rodando"
MsgStarted == "Backend iniciado com sucesso"
MsgStopped == "Backend parado"
MsgNotRunning == "Backend nao estava rodando"
ErrSidecarConfig == "Erro ao configurar sidecar"
ErrSidecarUnavailable == "Sidecar nao disponivel (modo dev?)"
ErrKill == "kill error"
ErrPoisoned == "poisoned lock"

\* Result<String, String> of start_backend / stop_backend
OkMsg(m) == [kind |-> "Ok", msg |-> m, alive |-> FALSE, pid |-> Null]
ErrMsg(m) == [kind |-> "Err", msg |-> m, alive |-> FALSE, pid |-> Null]
\* Ok(json!({"alive": .., "pid": ..})) of get_backend_status
OkStatus(a, p) == [kind |-> "Ok", msg |-> "status", alive |-> a, pid |-> p]
\* the command's task unwound instead of returning
Panicked == [kind |-> "Panic", msg |-> "panic", alive |-> FALSE, pid |-> Null]

VARIABLES
    child,      \* BackendState.child: None or the pid of the stored CommandChild
    lock,       \* holder of the mutex: Free or a caller
    poisoned,   \* the mutex's poison flag
    pc,         \* position of each caller's command
    op,         \* the command each caller is running
    taken,      \* stop_backend's local `child`, taken out of the slot
    hist,       \* returns (and panics) of the commands, in order
    running,    \* the sidecar processes alive in the operating system
    started,    \* pids spawned by start_backend
    autoChild,  \* pids spawned by the auto-start task
    kills,      \* kill requests issued, per pid
    build,      \* "debug" or "release" (cfg(not(debug_assertions)))
    setup,      \* result of the setup hook: "pending" or "Ok"
    autoPc,     \* position of the auto-start task
    logged      \* the auto-start task has printed its error

vars == <<child, lock, poisoned, pc, op, taken, hist, running, started,
          autoChild, kills, build, setup, autoPc, logged>>

supervisor == <<child, lock, poisoned, pc, op, taken, hist>>
processes == <<running, started, autoChild, kills>>
launch == <<build, setup, autoPc, logged>>

\* the callers whose command has been invoked and has not returned
InFlight == {c \in Callers : pc[c] \notin {"idle", "panicked"}}

\* the next process identifier the operating system hands out
NewPid == Cardinality(started \cup autoChild) + 1

\* ------------------------------------------------------------------ Init
\* run(): .manage(BackendState { child: Mutex::new(None) })
Init ==
    /\ child = None
    /\ lock = Free
    /\ poisoned = FALSE
    /\ pc = [c \in Callers |-> "idle"]
    /\ op = [c \in Callers |-> "none"]
    /\ taken = [c \in Callers |-> None]
    /\ hist = <<>>
    /\ running = {}
    /\ started = {}
    /\ autoChild = {}
    /\ kills = [p \in Pids |-> 0]
    /\ build \in {"debug", "release"}
    /\ setup = "pending"
    /\ autoPc = "none"
    /\ logged = FALSE

\* ------------------------------------------------------- command plumbing
\* the frontend invokes a command; its task starts at the lock() call
Invoke(c, o) ==
    /\ setup = "Ok"
    /\ pc[c] = "idle"
    /\ pc' = [pc EXCEPT ![c] = "lock"]
    /\ op' = [op EXCEPT ![c] = o]
    /\ UNCHANGED <<child, lock, poisoned, taken, hist>>
    /\ UNCHANGED processes
    /\ UNCHANGED launch

\* the handle the command of caller c found in the slot
Found(c) == IF pc[c] = "kill" THEN taken[c] ELSE child

\* what hist keeps of a finished command: its result, the pid it spawned and
\* the pid it asked to kill (None for none), the slot it left behind, the
\* number of other commands in flight when it finished, and whether the
\* process of the handle it found had already ended
Entry(c, r, sp, kl, sl) ==
    [op |-> op[c], res |-> r, spawned |-> sp, killed |-> kl, slot |-> sl,
     pend |-> Cardinality(InFlight \ {c}),
     stale |-> Found(c) # None /\ Found(c) \notin running]

\* the command returns r to its caller and the guard is dropped
Return(c, r, sp, kl, sl) ==
    /\ pc' = [pc EXCEPT ![c] = "idle"]
    /\ op' = [op EXCEPT ![c] = "none"]
    /\ hist' = Append(hist, Entry(c, r, sp, kl, sl))
    /\ lock' = Free

\* Lock without mutual exclusion: the mutex is entered while another holds it
Lock_nomutex(c) ==
    /\ pc[c] = "lock"
    /\ IF poisoned
         THEN /\ Return(c, ErrMsg(ErrPoisoned), None, None, child)
              /\ UNCHANGED <<child, poisoned, taken>>
         ELSE /\ lock' = c
              /\ pc' = [pc EXCEPT ![c] = "body"]
              /\ UNCHANGED <<child, poisoned, op, taken, hist>>
    /\ UNCHANGED processes
    /\ UNCHANGED launch

\* Lock as lock().unwrap(): a poisoned mutex unwinds the command
Lock_unwrap(c) ==
    /\ pc[c] = "lock"
    /\ lock = Free
    /\ IF poisoned
         THEN /\ pc' = [pc EXCEPT ![c] = "panicked"]
              /\ hist' = Append(hist, Entry(c, Panicked, None, None, child))
              /\ UNCHANGED <<child, lock, poisoned, op, taken>>
         ELSE /\ lock' = c
              /\ pc' = [pc EXCEPT ![c] = "body"]
              /\ UNCHANGED <<child, poisoned, op, taken, hist>>
    /\ UNCHANGED processes
    /\ UNCHANGED launch

\* state.child.lock().map_err(|e| e.to_string())?
\* lock() blocks until the mutex is free; on a poisoned mutex it yields Err,
\* whose guard is dropped by map_err, and `?` returns the message
Lock(c) ==
    /\ pc[c] = "lock"
    /\ lock = Free
    /\ IF poisoned
         THEN /\ Return(c, ErrMsg(ErrPoisoned), None, None, child)
              /\ UNCHANGED <<child, poisoned, taken>>
         ELSE /\ lock' = c
              /\ pc' = [pc EXCEPT ![c] = "body"]
              /\ UNCHANGED <<child, poisoned, op, taken, hist>>
    /\ UNCHANGED processes
    /\ UNCHANGED launch

\* ---------------------------------------------------------- start_backend
\* the collaborator's replies: app.shell().sidecar(..) and Command::spawn()
SidecarOutcomes == {"ok", "err"}
SpawnOutcomes == {"ok", "err", "panic"}

\* start_check without the is_some() test: every start goes on to spawn
start_check_nocheck(c) ==
    /\ pc[c] = "body"
    /\ op[c] = "start"
    /\ \E s \in SidecarOutcomes :
         IF s = "ok"
           THEN /\ pc' = [pc EXCEPT ![c] = "spawn"]
                /\ UNCHANGED <<child, lock, poisoned, op, taken, hist>>
           ELSE /\ Return(c, ErrMsg(ErrSidecarConfig), None, None, child)
                /\ UNCHANGED <<child, poisoned, taken>>
    /\ UNCHANGED processes
    /\ UNCHANGED launch

\* if child_guard.is_some() { return Ok("Backend ja esta rodando") }
\* let sidecar_result = app.shell().sidecar("titier-backend").map_err(..)?
start_check(c) ==
    /\ pc[c] = "body"
    /\ op[c] = "start"
    /\ IF child # None
         THEN /\ Return(c, OkMsg(MsgAlreadyRunning), None, None, child)
              /\ UNCHANGED <<child, poisoned, taken>>
         ELSE \E s \in SidecarOutcomes :
                IF s = "ok"
                  THEN /\ pc' = [pc EXCEPT ![c] = "spawn"]
                       /\ UNCHANGED <<child, lock, poisoned, op, taken, hist>>
                  ELSE /\ Return(c, ErrMsg(ErrSidecarConfig), None, None, child)
                       /\ UNCHANGED <<child, poisoned, taken>>
    /\ UNCHANGED processes
    /\ UNCHANGED launch

\* start_ok that drops the handle instead of storing it
start_ok_nostore(c) ==
    /\ child' = child
    /\ running' = running \cup {NewPid}
    /\ started' = started \cup {NewPid}
    /\ Return(c, OkMsg(MsgStarted), NewPid, None, child)
    /\ UNCHANGED <<poisoned, taken, autoChild, kills>>

\* Ok((_, child)) => { *child_guard = Some(child); Ok("Backend iniciado ..") }
start_ok(c) ==
    /\ child' = NewPid
    /\ running' = running \cup {NewPid}
    /\ started' = started \cup {NewPid}
    /\ Return(c, OkMsg(MsgStarted), NewPid, None, NewPid)
    /\ UNCHANGED <<poisoned, taken, autoChild, kills>>

\* start_err that has marked the slot before looking at the spawn result
start_err_store(c) ==
    /\ child' = NewPid
    /\ Return(c, ErrMsg(ErrSidecarUnavailable), None, None, NewPid)
    /\ UNCHANGED <<poisoned, taken>>
    /\ UNCHANGED processes

\* start_err that leaks its guard (mem::forget): the mutex stays locked
start_err_hold(c) ==
    /\ pc' = [pc EXCEPT ![c] = "idle"]
    /\ op' = [op EXCEPT ![c] = "none"]
    /\ hist' = Append(hist, Entry(c, ErrMsg(ErrSidecarUnavailable), None, None, child))
    /\ lock' = lock
    /\ UNCHANGED <<child, poisoned, taken>>
    /\ UNCHANGED processes

\* Err(e) => Err(format!("Sidecar nao disponivel (modo dev?): {}", e))
start_err(c) ==
    /\ Return(c, ErrMsg(ErrSidecarUnavailable), None, None, child)
    /\ UNCHANGED <<child, poisoned, taken>>
    /\ UNCHANGED processes

\* spawn() unwinds instead of returning a handle: the guard is dropped while
\* the thread panics, which poisons the mutex; the command never returns
start_panic(c) ==
    /\ poisoned' = TRUE
    /\ lock' = Free
    /\ pc' = [pc EXCEPT ![c] = "panicked"]
    /\ hist' = Append(hist, Entry(c, Panicked, None, None, child))
    /\ UNCHANGED <<child, op, taken>>
    /\ UNCHANGED processes

\* .spawn(); match sidecar_result { .. }
start_spawn(c) ==
    /\ pc[c] = "spawn"
    /\ \E s \in SpawnOutcomes :
         CASE s = "ok" -> start_ok(c)
           [] s = "err" -> start_err(c)
           [] s = "panic" -> start_panic(c)
    /\ UNCHANGED launch

start_backend(c) == start_check(c) \/ start_spawn(c)

\* ----------------------------------------------------------- stop_backend
KillOutcomes == {"ok", "err"}

\* stop_take with as_ref() for take(): the handle stays in the slot
stop_take_peek(c) ==
    /\ pc[c] = "body"
    /\ op[c] = "stop"
    /\ IF child # None
         THEN /\ taken' = [taken EXCEPT ![c] = child]
              /\ child' = child
              /\ pc' = [pc EXCEPT ![c] = "kill"]
              /\ UNCHANGED <<lock, poisoned, op, hist>>
         ELSE /\ Return(c, OkMsg(MsgNotRunning), None, None, child)
              /\ UNCHANGED <<child, poisoned, taken>>
    /\ UNCHANGED processes
    /\ UNCHANGED launch

\* stop_take that treats an empty slot as an error
stop_take_strict(c) ==
    /\ pc[c] = "body"
    /\ op[c] = "stop"
    /\ IF child # None
         THEN /\ taken' = [taken EXCEPT ![c] = child]
              /\ child' = None
              /\ pc' = [pc EXCEPT ![c] = "kill"]
              /\ UNCHANGED <<lock, poisoned, op, hist>>
         ELSE /\ Return(c, ErrMsg(MsgNotRunning), None, None, child)
              /\ UNCHANGED <<child, poisoned, taken>>
    /\ UNCHANGED processes
    /\ UNCHANGED launch

\* if let Some(child) = child_guard.take() { .. } else { Ok("Backend nao ..") }
stop_take(c) ==
    /\ pc[c] = "body"
    /\ op[c] = "stop"
    /\ IF child # None
         THEN /\ taken' = [taken EXCEPT ![c] = child]
              /\ child' = None
              /\ pc' = [pc EXCEPT ![c] = "kill"]
              /\ UNCHANGED <<lock, poisoned, op, hist>>
         ELSE /\ Return(c, OkMsg(MsgNotRunning), None, None, child)
              /\ UNCHANGED <<child, poisoned, taken>>
    /\ UNCHANGED processes
    /\ UNCHANGED launch

\* stop_kill that puts the handle back into the slot when the kill fails
stop_kill_restore(c) ==
    /\ pc[c] = "kill"
    /\ kills' = [kills EXCEPT ![taken[c]] = @ + 1]
    /\ taken' = [taken EXCEPT ![c] = None]
    /\ \E k \in KillOutcomes :
         IF k = "ok"
           THEN /\ running' = running \ {taken[c]}
                /\ child' = child
                /\ Return(c, OkMsg(MsgStopped), None, taken[c], child)
           ELSE /\ running' = running
                /\ child' = taken[c]
                /\ Return(c, ErrMsg(ErrKill), None, taken[c], taken[c])
    /\ UNCHANGED <<poisoned, started, autoChild>>
    /\ UNCHANGED launch

\* child.kill().map_err(|e| e.to_string())?; Ok("Backend parado")
\* kill() consumes the handle; a failed kill leaves the process as it was
stop_kill(c) ==
    /\ pc[c] = "kill"
    /\ kills' = [kills EXCEPT ![taken[c]] = @ + 1]
    /\ taken' = [taken EXCEPT ![c] = None]
    /\ \E k \in KillOutcomes :
         IF k = "ok"
           THEN /\ running' = running \ {taken[c]}
                /\ Return(c, OkMsg(MsgStopped), None, taken[c], child)
           ELSE /\ running' = running
                /\ Return(c, ErrMsg(ErrKill), None, taken[c], child)
    /\ UNCHANGED <<child, poisoned, started, autoChild>>
    /\ UNCHANGED launch

stop_backend(c) == stop_take(c) \/ stop_kill(c)

\* ----------------------------------------------------- get_backend_status
\* json!({"alive": true, "pid": child.pid()}) / json!({"alive": false, "pid": null})
StatusJson(slot) ==
    IF slot # None THEN OkStatus(TRUE, slot) ELSE OkStatus(FALSE, Null)

\* get_backend_status with child_guard.take() for &*child_guard: reading the
\* slot empties it
get_backend_status_take(c) ==
    /\ pc[c] = "body"
    /\ op[c] = "status"
    /\ child' = None
    /\ Return(c, StatusJson(child), None, None, None)
    /\ UNCHANGED <<poisoned, taken>>
    /\ UNCHANGED processes
    /\ UNCHANGED launch

get_backend_status(c) ==
    /\ pc[c] = "body"
    /\ op[c] = "status"
    /\ Return(c, StatusJson(child), None, None, child)
    /\ UNCHANGED <<child, poisoned, taken>>
    /\ UNCHANGED processes
    /\ UNCHANGED launch

\* ------------------------------------------------------------ environment
\* ChildExit with a supervisor that reaps: the slot is cleared when the
\* tracked process ends
ChildExit_reap(p) ==
    /\ p \in running
    /\ running' = running \ {p}
    /\ child' = IF child = p THEN None ELSE child
    /\ UNCHANGED <<started, autoChild, kills>>
    /\ UNCHANGED <<lock, poisoned, pc, op, taken, hist>>
    /\ UNCHANGED launch

\* the sidecar process ends by itself (crash, external kill)
ChildExit(p) ==
    /\ p \in running
    /\ running' = running \ {p}
    /\ UNCHANGED <<started, autoChild, kills>>
    /\ UNCHANGED supervisor
    /\ UNCHANGED launch

\* ------------------------------------------------------- run(): the setup
\* Setup that runs the auto-start inline and returns its error with `?`
Setup_inline ==
    /\ setup = "pending"
    /\ \E s \in {"ok", "err"} :
         IF build = "release" /\ s = "err"
           THEN /\ setup' = "Err"
                /\ autoPc' = "done"
                /\ logged' = TRUE
           ELSE /\ setup' = "Ok"
                /\ autoPc' = IF build = "release" THEN "sleep" ELSE "none"
                /\ logged' = logged
    /\ UNCHANGED build
    /\ UNCHANGED supervisor
    /\ UNCHANGED processes

\* .setup(|_app| { #[cfg(not(debug_assertions))] { spawn(async move {..}) } Ok(()) })
Setup ==
    /\ setup = "pending"
    /\ setup' = "Ok"
    /\ autoPc' = IF build = "release" THEN "sleep" ELSE "none"
    /\ UNCHANGED <<build, logged>>
    /\ UNCHANGED supervisor
    /\ UNCHANGED processes

\* std::thread::sleep(Duration::from_millis(500)) has elapsed
AutoWake ==
    /\ autoPc = "sleep"
    /\ autoPc' = "spawn"
    /\ UNCHANGED <<build, setup, logged>>
    /\ UNCHANGED supervisor
    /\ UNCHANGED processes

\* if let Err(e) = handle.shell().sidecar(..).and_then(|cmd| cmd.spawn())
\*     { eprintln!(..) }
\* the Ok value, with its CommandChild, is dropped; the process keeps running
AutoSpawn ==
    /\ autoPc = "spawn"
    /\ autoPc' = "done"
    /\ \E s \in {"ok", "err"} :
         IF s = "ok"
           THEN /\ running' = running \cup {NewPid}
                /\ autoChild' = autoChild \cup {NewPid}
                /\ UNCHANGED <<started, kills, logged>>
           ELSE /\ logged' = TRUE
                /\ UNCHANGED processes
    /\ UNCHANGED <<build, setup>>
    /\ UNCHANGED supervisor

\* ------------------------------------------------------------------- Next
Ops == {"start", "stop", "status"}

\* the calls invoked so far
CallsMade == Len(hist) + Cardinality(InFlight)

Next ==
    \/ Setup
    \/ AutoWake
    \/ AutoSpawn
    \/ \E c \in Callers : \E o \in Ops : CallsMade < MaxCalls /\ Invoke(c, o)
    \/ \E c \in Callers : Lock(c)
    \/ \E c \in Callers : start_backend(c)
    \/ \E c \in Callers : stop_backend(c)
    \/ \E c \in Callers : get_backend_status(c)
    \/ \E p \in Pids : ChildExit(p)

Spec == Init /\ [][Next]_vars

\* the runtime keeps running every command's task, and the lock, spawn and
\* kill calls return
Fairness ==
    \A c \in Callers :
        /\ WF_vars(Lock(c))
        /\ WF_vars(start_backend(c))
        /\ WF_vars(stop_backend(c))
        /\ WF_vars(get_backend_status(c))

\* the concurrent program again, for the properties of its infinite runs
NextLive ==
    \/ Setup
    \/ AutoWake
    \/ AutoSpawn
    \/ \E c \in Callers : \E o \in Ops : CallsMade < MaxLiveCalls /\ Invoke(c, o)
    \/ \E c \in Callers : Lock(c)
    \/ \E c \in Callers : start_backend(c)
    \/ \E c \in Callers : stop_backend(c)
    \/ \E c \in Callers : get_backend_status(c)
    \/ \E p \in Pids : ChildExit(p)

SpecLive == Init /\ [][NextLive]_vars /\ Fairness

\* the same program with its commands invoked one at a time
NextSeq ==
    \/ Setup
    \/ AutoWake
    \/ AutoSpawn
    \/ \E c \in Callers : \E o \in Ops :
         InFlight = {} /\ CallsMade < MaxSeqCalls /\ Invoke(c, o)
    \/ \E c \in Callers : Lock(c)
    \/ \E c \in Callers : start_backend(c)
    \/ \E c \in Callers : stop_backend(c)
    \/ \E c \in Callers : get_backend_status(c)
    \/ \E p \in Pids : ChildExit(p)

SpecSeq == Init /\ [][NextSeq]_vars

TypeOK ==
    /\ child \in {None} \cup Pids
    /\ lock \in {Free} \cup Callers
    /\ poisoned \in BOOLEAN
    /\ pc \in [Callers -> {"idle", "lock", "body", "spawn", "kill", "panicked"}]
    /\ op \in [Callers -> {"none"} \cup Ops]
    /\ running \subseteq started \cup autoChild
    /\ Len(hist) <= MaxCalls + MaxSeqCalls

\* ================================================================ claims
Idx == 1..Len(hist)

Started(e) == e.res = OkMsg(MsgStarted)
NoStopBetween(i, j) == \A k \in (i + 1)..(j - 1) : hist[k].op # "stop"
NoStartBetween(i, j) == \A k \in (i + 1)..(j - 1) : hist[k].op # "start"

\* a start_backend call made after a successful start with no stop in between
\* spawns nothing, leaves the slot as it was and returns "already running"
RestartIsNoOp ==
    \A i \in Idx : \A j \in Idx :
        (i < j /\ Started(hist[i]) /\ NoStopBetween(i, j) /\ hist[j].op = "start")
        => /\ hist[j].res = OkMsg(MsgAlreadyRunning)
           /\ hist[j].spawned = None
           /\ hist[j].slot = hist[i].spawned

\* the pids whose kill request failed in stop_backend
KillFailed == {hist[i].killed : i \in {k \in Idx : hist[k].res = ErrMsg(ErrKill)}}

\* C1, as stated: at most one child spawned by start_backend is alive at any
\* time, and a start_backend call made while the slot holds a handle spawns
\* nothing, leaves the slot unchanged and returns "already running".
C1_AtMostOneActive ==
    /\ Cardinality(running \cap started) <= 1
    /\ RestartIsNoOp

\* C1, amended: every live child spawned by start_backend is the one held in
\* the slot, one a stop_backend in progress has taken, or one whose kill
\* request failed; and a start_backend call made while the slot holds a handle
\* spawns nothing, leaves the slot unchanged and returns "already running".
C1_OneTrackedChild ==
    /\ \A p \in running \cap started :
          \/ p = child
          \/ \E c \in Callers : taken[c] = p
          \/ p \in KillFailed
    /\ RestartIsNoOp

C1_Witness ==
    \E i \in Idx : \E j \in Idx :
        /\ i < j
        /\ Started(hist[i])
        /\ NoStopBetween(i, j)
        /\ hist[j].op = "start"
        /\ child = hist[i].spawned
        /\ child \in running

SpawnFailed(e) ==
    e.res \in {ErrMsg(ErrSidecarConfig), ErrMsg(ErrSidecarUnavailable), Panicked}

\* C2: when the first calls are one start_backend per caller and the spawn
\* collaborator does not fail, then under every interleaving exactly one of
\* them returns "started", the others return "already running", and
\* exactly one process has been spawned.
C2_ConcurrentStarts ==
    ( /\ Len(hist) = NumCallers
      /\ InFlight = {}
      /\ \A i \in Idx : hist[i].op = "start" /\ ~SpawnFailed(hist[i]) )
    => /\ Cardinality({i \in Idx : Started(hist[i])}) = 1
       /\ \A i \in Idx : hist[i].res \in {OkMsg(MsgStarted), OkMsg(MsgAlreadyRunning)}
       /\ Cardinality(started) = 1

\* all the callers were in flight together: the others were waiting when the
\* first start_backend returned
C2_Witness ==
    /\ Len(hist) = NumCallers
    /\ InFlight = {}
    /\ \A i \in Idx : hist[i].op = "start" /\ hist[i].res.kind = "Ok"
    /\ hist[1].pend = NumCallers - 1
    /\ Started(hist[1])

\* C3: the auto-start task stores the child it spawns in the slot, so every
\* child it spawned is the one in the slot unless a stop_backend took it from
\* there; and it spawns nothing while the slot is occupied.
C3_AutoStartStoresHandle ==
    \A p \in autoChild :
        /\ \/ p = child
           \/ \E c \in Callers : taken[c] = p
           \/ kills[p] > 0
        /\ \A q \in started : q > p \/ kills[q] > 0 \/ \E c \in Callers : taken[c] = q

\* C4: a get_backend_status call that follows a start_backend call which
\* returned "started", with no stop_backend in between, returns alive = true
\* and the pid of the child that start spawned.
C4_StatusAfterStart ==
    \A i \in Idx : \A j \in Idx :
        (i < j /\ Started(hist[i]) /\ NoStopBetween(i, j) /\ hist[j].op = "status")
        => hist[j].res = OkStatus(TRUE, hist[i].spawned)

C4_Witness ==
    \E i \in Idx : \E j \in Idx :
        /\ i < j
        /\ Started(hist[i])
        /\ NoStopBetween(i, j)
        /\ hist[j].op = "status"
        /\ hist[j].res.alive
        /\ hist[j].res.pid = hist[i].spawned
        /\ hist[i].spawned \in started

\* C5: a get_backend_status call that follows a stop_backend call which
\* returned "stopped", with no start_backend in between, returns
\* alive = false and pid = null.
C5_StatusAfterStop ==
    \A i \in Idx : \A j \in Idx :
        (i < j /\ hist[i].res = OkMsg(MsgStopped) /\ NoStartBetween(i, j)
               /\ hist[j].op = "status")
        => hist[j].res = OkStatus(FALSE, Null)

C5_Witness ==
    \E i \in Idx : \E j \in Idx :
        /\ i < j
        /\ hist[i].res = OkMsg(MsgStopped)
        /\ hist[i].killed \in started
        /\ NoStartBetween(i, j)
        /\ hist[j].op = "status"
        /\ hist[j].res = OkStatus(FALSE, Null)

\* start_backend returned the error of a failed sidecar resolution or spawn
StartFailed(e) ==
    e.op = "start" /\ e.res \in {ErrMsg(ErrSidecarConfig), ErrMsg(ErrSidecarUnavailable)}

\* C6: a start_backend call whose sidecar resolution or spawn fails returns an
\* error naming the cause and stores no handle; a get_backend_status call right
\* after it returns alive = false and pid = null, and a start_backend call
\* right after it attempts the spawn again instead of reporting a running child.
C6_SpawnFailure ==
    \A i \in Idx :
        StartFailed(hist[i])
        => /\ hist[i].res.kind = "Err"
           /\ hist[i].spawned = None
           /\ hist[i].slot = None
           /\ (i + 1 \in Idx /\ hist[i + 1].op = "status")
                 => hist[i + 1].res = OkStatus(FALSE, Null)
           /\ (i + 1 \in Idx /\ hist[i + 1].op = "start")
                 => \/ Started(hist[i + 1]) /\ hist[i + 1].spawned \in started
                    \/ StartFailed(hist[i + 1])
                    \/ hist[i + 1].res = Panicked

\* a failed start, a status that still shows nothing, and a retry that spawns
C6_Witness ==
    /\ Len(hist) = 3
    /\ StartFailed(hist[1])
    /\ hist[2].res = OkStatus(FALSE, Null)
    /\ Started(hist[3])
    /\ child = hist[3].spawned

\* C7: a stop_backend call whose kill request fails returns an error and
\* leaves the slot empty: right after it get_backend_status returns
\* alive = false, stop_backend returns "not running" and start_backend
\* spawns a new child, while the first process may still be alive.
C7_KillFailure ==
    \A i \in Idx :
        hist[i].res = ErrMsg(ErrKill)
        => /\ hist[i].op = "stop"
           /\ hist[i].killed \in started \cup autoChild
           /\ hist[i].slot = None
           /\ (i + 1 \in Idx /\ hist[i + 1].op = "status")
                 => hist[i + 1].res = OkStatus(FALSE, Null)
           /\ (i + 1 \in Idx /\ hist[i + 1].op = "stop")
                 => hist[i + 1].res = OkMsg(MsgNotRunning) /\ hist[i + 1].killed = None
           /\ (i + 1 \in Idx /\ hist[i + 1].op = "start")
                 => /\ hist[i + 1].res # OkMsg(MsgAlreadyRunning)
                    /\ Started(hist[i + 1])
                          => /\ hist[i + 1].spawned # hist[i].killed
                             /\ hist[i + 1].slot = hist[i + 1].spawned

\* the kill failed, the next start spawned a second child, and the first
\* process is still alive beside it
C7_Witness ==
    /\ Len(hist) = 3
    /\ Started(hist[1])
    /\ hist[2].res = ErrMsg(ErrKill)
    /\ Started(hist[3])
    /\ child = hist[3].spawned
    /\ hist[2].killed \in running
    /\ hist[2].killed # child

\* the slot and the poison flag a command finds when it gets the mutex
SlotBefore(i) == IF i = 1 THEN None ELSE hist[i - 1].slot
PoisonedBefore(i) == \E k \in 1..(i - 1) : hist[k].res = Panicked

ScenarioOps == <<"start", "status", "stop", "status", "stop">>

\* start, status, stop, status, stop with a spawn and a kill that succeed
\* yield "started", alive = true with the spawned pid, "stopped",
\* alive = false with pid = null, and "not running"
Scenario ==
    ( /\ Len(hist) = Len(ScenarioOps)
      /\ \A i \in Idx : hist[i].op = ScenarioOps[i]
      /\ Started(hist[1])
      /\ hist[3].res = OkMsg(MsgStopped) )
    => /\ hist[2].res = OkStatus(TRUE, hist[1].spawned)
       /\ hist[3].killed = hist[1].spawned
       /\ hist[4].res = OkStatus(FALSE, Null)
       /\ hist[5].res = OkMsg(MsgNotRunning)
       /\ hist[5].killed = None

\* C8, as stated: a stop_backend call made while no handle is tracked returns
\* "not running", issues no kill request and leaves the slot empty; and the
\* sequence start, status, stop, status, stop yields the scenario's results.
C8_StopWhenEmpty ==
    /\ \A i \in Idx :
          (hist[i].op = "stop" /\ SlotBefore(i) = None)
          => /\ hist[i].res = OkMsg(MsgNotRunning)
             /\ hist[i].killed = None
             /\ hist[i].slot = None
    /\ Scenario

\* C8, amended: a stop_backend call made while no handle is tracked issues no
\* kill request, leaves the slot empty and returns "not running", unless the
\* mutex is poisoned, when it returns the lock's error instead; and the
\* sequence start, status, stop, status, stop yields the scenario's results.
C8_StopWhenEmptyUnlessPoisoned ==
    /\ \A i \in Idx :
          (hist[i].op = "stop" /\ SlotBefore(i) = None)
          => /\ hist[i].res = IF PoisonedBefore(i) THEN ErrMsg(ErrPoisoned)
                                                   ELSE OkMsg(MsgNotRunning)
             /\ hist[i].killed = None
             /\ hist[i].slot = None
    /\ Scenario

\* the scenario has run to its end
C8_Witness ==
    /\ Len(hist) = Len(ScenarioOps)
    /\ \A i \in Idx : hist[i].op = ScenarioOps[i]
    /\ Started(hist[1])
    /\ hist[3].res = OkMsg(MsgStopped)
    /\ hist[5].res = OkMsg(MsgNotRunning)
    /\ child = None

\* C9: once the mutex is poisoned, every start_backend, stop_backend and
\* get_backend_status call returns the lock's error as a value (it does not
\* unwind), spawns nothing, kills nothing and leaves the slot as it was; no
\* command is inside the critical section.
C9_PoisonedLock ==
    /\ \A i \in Idx : \A j \in Idx :
          (i < j /\ hist[i].res = Panicked)
          => /\ hist[j].res = ErrMsg(ErrPoisoned)
             /\ hist[j].spawned = None
             /\ hist[j].killed = None
             /\ hist[j].slot = hist[i].slot
    /\ poisoned
          => /\ lock = Free
             /\ \A c \in Callers : pc[c] \in {"idle", "lock", "panicked"}
             /\ \E i \in Idx : hist[i].res = Panicked /\ child = hist[i].slot

\* each of the three commands has been refused by the poisoned mutex
C9_Witness ==
    /\ poisoned
    /\ Len(hist) = 4
    /\ hist[1].res = Panicked
    /\ {hist[i].op : i \in 2..4} = Ops
    /\ \A i \in 2..4 : hist[i].res = ErrMsg(ErrPoisoned)

\* C10: the setup hook returns Ok before the auto-start task has slept or
\* spawned, and never returns anything else; an auto-start whose spawn fails
\* only logs, leaving the slot, the mutex, the commands and the processes as
\* they were.
C10_AutoStartDetached ==
    [][ /\ setup' \in {"pending", "Ok"}
        /\ (setup = "pending" /\ setup' # "pending")
              => /\ autoPc' \in {"none", "sleep"}
                 /\ ~logged'
                 /\ UNCHANGED <<supervisor, processes>>
        /\ (autoPc = "spawn" /\ autoPc' = "done" /\ autoChild' = autoChild)
              => /\ logged'
                 /\ UNCHANGED <<supervisor, processes, setup>>
      ]_vars

\* the auto-start failed and was logged, and a later start_backend and
\* get_backend_status went on as usual
C10_Witness ==
    /\ logged
    /\ setup = "Ok"
    /\ autoPc = "done"
    /\ autoChild = {}
    /\ Len(hist) = 2
    /\ Started(hist[1])
    /\ hist[2].res = OkStatus(TRUE, hist[1].spawned)

\* the slot as the last finished command left it
LastSlot == IF hist = <<>> THEN None ELSE hist[Len(hist)].slot

\* C11: the death of the tracked process does not touch the slot: a command
\* that finds the handle of a process that has ended behaves as if it were
\* alive (get_backend_status returns alive = true with its pid, start_backend
\* returns "already running" and spawns nothing, stop_backend takes the
\* handle and asks to kill it), and only a stop_backend empties the slot.
C11_StaleBookkeeping ==
    /\ \A j \in Idx :
          hist[j].stale
          => /\ SlotBefore(j) # None
             /\ hist[j].op = "status"
                   => /\ hist[j].res = OkStatus(TRUE, SlotBefore(j))
                      /\ hist[j].slot = SlotBefore(j)
             /\ hist[j].op = "start"
                   => /\ hist[j].res = OkMsg(MsgAlreadyRunning)
                      /\ hist[j].spawned = None
                      /\ hist[j].slot = SlotBefore(j)
             /\ hist[j].op = "stop"
                   => /\ hist[j].killed = SlotBefore(j)
                      /\ hist[j].slot = None
    /\ \A j \in Idx :
          (SlotBefore(j) # None /\ hist[j].slot # SlotBefore(j)) => hist[j].op = "stop"
    /\ (\A c \in Callers : pc[c] # "kill") => child = LastSlot

\* the tracked process has ended; status still shows it and start still
\* declines to spawn
C11_Witness ==
    /\ Len(hist) = 3
    /\ Started(hist[1])
    /\ hist[2].op = "status" /\ hist[2].stale
    /\ hist[2].res = OkStatus(TRUE, hist[1].spawned)
    /\ hist[3].op = "start" /\ hist[3].stale
    /\ hist[3].res = OkMsg(MsgAlreadyRunning)
    /\ child = hist[1].spawned
    /\ child \notin running

\* caller c is between acquiring the mutex and dropping its guard
InCritical(c) == pc[c] \in {"body", "spawn", "kill"}

\* C12: a command is inside its body exactly while it holds the mutex, so at
\* most one is; every write of the slot, every spawn of start_backend, every
\* take and kill of stop_backend and every reply computed from the slot is a
\* step of the holder; and while one command holds the mutex no other command
\* enters or returns (a get_backend_status issued during a start_backend's
\* spawn waits for it).
C12_UnderTheMutex ==
    /\ [](\A c \in Callers : InCritical(c) <=> lock = c)
    /\ [][ /\ (child' # child \/ started' # started \/ kills' # kills \/ taken' # taken)
               => /\ lock \in Callers
                  /\ InCritical(lock)
                  /\ pc'[lock] # pc[lock]
           /\ Len(hist') > Len(hist)
               => \/ lock \in Callers /\ pc'[lock] \in {"idle", "panicked"}
                  \/ lock = Free /\ poisoned
           /\ \A c \in Callers : \A d \in Callers :
                 (lock = c /\ d # c)
                 => \/ pc'[d] = pc[d]
                    \/ pc[d] = "idle" /\ pc'[d] = "lock"
         ]_vars

\* a get_backend_status was waiting when start_backend returned "started",
\* and then reported the child that start had stored
C12_Witness ==
    /\ Len(hist) = 2
    /\ Started(hist[1])
    /\ hist[1].pend = 1
    /\ hist[2].op = "status"
    /\ hist[2].res = OkStatus(TRUE, hist[1].spawned)

\* the slot and the poison flag after the first i commands of hist, as a
\* sequential supervisor would have them, told from the replies alone
RECURSIVE SeqSlot(_)
SeqSlot(i) ==
    IF i = 0 THEN None
    ELSE IF Started(hist[i]) THEN hist[i].spawned
    ELSE IF hist[i].res \in {OkMsg(MsgStopped), ErrMsg(ErrKill)} THEN None
    ELSE SeqSlot(i - 1)

SeqPoisoned(i) == \E k \in 1..i : hist[k].res = Panicked

\* the reply of the i-th command is one a sequential supervisor gives in the
\* state the commands before it left
SeqLegal(i) ==
    LET e == hist[i]
        slot == SeqSlot(i - 1)
    IN  IF SeqPoisoned(i - 1) THEN e.res = ErrMsg(ErrPoisoned)
        ELSE CASE e.op = "start" ->
                    IF slot # None
                      THEN e.res = OkMsg(MsgAlreadyRunning) /\ e.spawned = None
                      ELSE \/ /\ Started(e)
                              /\ e.spawned # None
                              /\ \A k \in 1..(i - 1) : hist[k].spawned # e.spawned
                           \/ SpawnFailed(e) /\ e.spawned = None
               [] e.op = "stop" ->
                    IF slot # None
                      THEN e.res \in {OkMsg(MsgStopped), ErrMsg(ErrKill)} /\ e.killed = slot
                      ELSE e.res = OkMsg(MsgNotRunning) /\ e.killed = None
               [] e.op = "status" -> e.res = StatusJson(slot)

\* C13: under any interleaving the replies are those of the commands run one
\* after another in the order they returned; and get_backend_status never
\* returns alive = true with the pid of a child whose handle a stop_backend
\* has taken or asked to kill.
C13_Atomic ==
    /\ [](\A i \in Idx : SeqLegal(i))
    /\ [][ (Len(hist') > Len(hist) /\ hist'[Len(hist')].op = "status"
                                   /\ hist'[Len(hist')].res.alive)
            => /\ kills[hist'[Len(hist')].res.pid] = 0
               /\ \A c \in Callers : taken[c] # hist'[Len(hist')].res.pid
         ]_vars

\* a get_backend_status waited while stop_backend took the handle and killed,
\* and then reported an empty slot
C13_Witness ==
    /\ Len(hist) = 3
    /\ Started(hist[1])
    /\ hist[2].res = OkMsg(MsgStopped)
    /\ hist[2].pend = 1
    /\ hist[3].op = "status"
    /\ hist[3].res = OkStatus(FALSE, Null)

\* this step is the return of a get_backend_status command
StatusReturns ==
    \E c \in Callers : op[c] = "status" /\ pc[c] # "idle" /\ pc'[c] = "idle"

\* C14: get_backend_status changes neither the slot nor the mutex's poison
\* flag, spawns nothing and kills nothing; and two get_backend_status calls
\* with no other command returning between them give the same reply.
C14_StatusReadOnly ==
    /\ [][ StatusReturns => UNCHANGED <<child, poisoned, taken, processes, launch>> ]_vars
    /\ [](\A j \in Idx :
            hist[j].op = "status"
            => /\ hist[j].spawned = None
               /\ hist[j].killed = None
               /\ hist[j].slot = SlotBefore(j)
               /\ (j + 1 \in Idx /\ hist[j + 1].op = "status")
                     => hist[j + 1].res = hist[j].res)

\* two status replies in a row, both showing the running child
C14_Witness ==
    /\ Len(hist) = 3
    /\ Started(hist[1])
    /\ hist[2].op = "status"
    /\ hist[3].op = "status"
    /\ hist[3].res = hist[2].res
    /\ hist[3].res = OkStatus(TRUE, child)

\* C15: every live child the application has spawned and has not asked to
\* kill is the one whose handle is in the slot (or in the hands of the
\* stop_backend that has just taken it), the auto-start path included.
C15_EveryChildTracked ==
    \A p \in running :
        kills[p] = 0 => (p = child \/ \E c \in Callers : taken[c] = p)

\* the commands of hist that asked to kill p
KillersOf(p) == {j \in Idx : hist[j].killed = p}

\* C16: a kill request is made only by a stop_backend, on the handle that
\* same call took out of the slot; no child gets more than one kill request;
\* and of the stop_backend calls that follow one another with no start
\* between them, only the first takes and kills, the others return
\* "not running".
C16_OneKillPerChild ==
    /\ [][ kills' # kills
            => \E c \in Callers :
                  /\ pc[c] = "kill"
                  /\ op[c] = "stop"
                  /\ taken[c] # None
                  /\ lock = c
                  /\ kills' = [kills EXCEPT ![taken[c]] = @ + 1]
                  /\ taken'[c] = None
         ]_vars
    /\ [](/\ \A p \in Pids : kills[p] <= 1 /\ kills[p] = Cardinality(KillersOf(p))
          /\ \A j \in Idx :
                hist[j].killed # None
                => /\ hist[j].op = "stop"
                   /\ hist[j].killed = SlotBefore(j)
                   /\ hist[j].res \in {OkMsg(MsgStopped), ErrMsg(ErrKill)}
          /\ \A i \in Idx : \A j \in Idx :
                (i < j /\ hist[i].killed # None /\ hist[j].op = "stop"
                       /\ NoStartBetween(i, j))
                => hist[j].res = OkMsg(MsgNotRunning) /\ hist[j].killed = None)

\* two stop_backend calls were in flight together on the tracked child: the
\* first killed it, the second found nothing
C16_Witness ==
    /\ Len(hist) = 3
    /\ Started(hist[1])
    /\ hist[2].op = "stop"
    /\ hist[2].killed = hist[1].spawned
    /\ hist[2].pend = 1
    /\ hist[3].res = OkMsg(MsgNotRunning)
    /\ kills[hist[1].spawned] = 1

\* C17: the mutex is free whenever no command is inside its body, whichever
\* way the last one left it; hence, with the runtime running every task and
\* the spawn and kill calls coming back, the mutex is always freed again and
\* every invoked command ends (it returns, or unwinds where spawn unwinds).
C17_AlwaysReleased ==
    /\ []((\A c \in Callers : ~InCritical(c)) => lock = Free)
    /\ (lock # Free) ~> (lock = Free)
    /\ \A c \in Callers : (pc[c] = "lock") ~> (pc[c] \in {"idle", "panicked"})

\* a command waited for the mutex behind a start_backend whose spawn failed,
\* and both have returned
C17_Witness ==
    /\ Len(hist) = 2
    /\ hist[1].res = ErrMsg(ErrSidecarUnavailable)
    /\ hist[1].pend = 1
    /\ hist[2].res.kind = "Ok"
    /\ lock = Free
    /\ InFlight = {}

====
